---- MODULE Spec2Model ----
(***************************************************************************)
(* The Hue BLE daemon (src/daemon.py) and its connection manager           *)
(* (src/hue_ble.py) as a state machine.  One asyncio event loop runs the   *)
(* start() task (task 0) and one handle_client task per accepted session;  *)
(* every action is the code a task runs between two suspension points.     *)
(* The BLE transport (bleak) is external: its calls return an outcome      *)
(* chosen nondeterministically, and it may drop a link at any time.        *)
(***************************************************************************)
EXTENDS Integers, Sequences, FiniteSets, TLC

\* ------------------------------------------------------------ bounds
MaxSessions == 2

\* ------------------------------------------------- program constants
DefaultLevel == 50
MinPercent == 1
MaxPercent == 100
WireSpan == 253
PowerOn == 1
PowerOff == 0

\* ------------------------------------------------------------- names
Main == 0
Sessions == 1..MaxSessions
\* the sessions of the contention specification: one more, so that one can
\* hold the lock, one wait for it and one disconnect
Contenders == 1..(MaxSessions + 1)
Tasks == {Main} \cup Sessions \cup Contenders
\* A HueBulbConnection is named by the task that constructed it: start()
\* and every handle_client call construct at most one.
Conns == Tasks
NoConn == -1
NoTask == -1
NoAddr == "none"
Addresses == {"AA:BB", "CC:DD"}
NoLevel == -1000
\* request levels in the daemon specification: absent (the default) and
\* out of range
Levels == {NoLevel, 150}
\* request levels in the brightness specification
AllLevels == 0..101

OpCmds == {"on", "off", "brightness", "status"}
KnownCmds == {"ping", "connect", "disconnect", "shutdown"} \cup OpCmds

VARIABLES
    connection,   \* HueDaemon.connection: a connection or NoConn (None)
    server,       \* HueDaemon.server: "none", "listening", "closed"
    pidFile,      \* PID_FILE exists
    lastAddress,  \* config["last_address"], NoAddr when the key is absent
    address,      \* HueBulbConnection.address, NoAddr before construction
    client,       \* HueBulbConnection._client is not None
    connected,    \* HueBulbConnection._connected
    link,         \* the BleakClient the connection created:
                  \*   "none", "connecting", "connected", "closed" (by the
                  \*   client, or never established), "dropped" (lost by
                  \*   the transport), "lost" (dropped and _on_disconnect
                  \*   called)
    lockHolder,   \* HueBulbConnection._lock: the task holding it or NoTask
    waiters,      \* HueBulbConnection._lock._waiters, in arrival order
    bulb,         \* the characteristics of the device at each address
    pc,           \* where each task is suspended
    request,      \* the request a session decoded
    seen,         \* what the daemon's state was as the request was decoded
    self,         \* the connection whose method the task is suspended in
    resp,         \* the last response the session built
    sent,         \* response lines put on the session's socket
    wire          \* the transport reads and writes the task issued

daemonVars == <<connection, server, pidFile, lastAddress>>
connVars == <<address, client, connected, link>>
lockVars == <<lockHolder, waiters>>
sessVars == <<request, seen, self, resp, sent>>
vars == <<connection, server, pidFile, lastAddress, address, client, connected,
          link, lockHolder, waiters, bulb, pc, request, seen, self, resp, sent,
          wire>>

\* ---------------------------------------------------------- requests
\* The daemon as a handler finds it: whether its connection is connected
\* (all of is_connected's conjuncts) and to which address, whether the
\* transport dropped it, and the configured address.
NothingSeen == [up |-> FALSE, lost |-> FALSE, addr |-> NoAddr, known |-> NoAddr]
NoRequest == [cmd |-> "<none>", address |-> NoAddr, level |-> NoLevel]
Req(c, a, l) == [cmd |-> c, address |-> a, level |-> l]
Requests ==
    {Req(c, NoAddr, NoLevel) :
        c \in {"ping", "disconnect", "on", "off", "status", "shutdown", "bogus"}}
    \cup {Req("connect", a, NoLevel) : a \in Addresses \cup {NoAddr}}
    \cup {Req("brightness", NoAddr, l) : l \in Levels}

\* --------------------------------------------------------- responses
NoResp == [none |-> TRUE]
UnknownCommand == [ok |-> FALSE, error |-> "Unknown command"]
NoAddressSpecified == [ok |-> FALSE, error |-> "No address specified"]
AlreadyConnected == [ok |-> TRUE, message |-> "Already connected"]
ConnectedTo(a) == [ok |-> TRUE, message |-> "Connected to", address |-> a]
ConnectionFailed == [ok |-> FALSE, error |-> "Connection failed"]
NotConnected == [ok |-> FALSE, error |-> "Not connected"]
FailedToReadState == [ok |-> FALSE, error |-> "Failed to read state"]
ShuttingDown == [ok |-> TRUE, message |-> "Shutting down"]
Ok(b) == [ok |-> b]
StateResponse(p, b) == [ok |-> TRUE, power |-> p, brightness |-> b]
ErrorResponse(e) == [ok |-> FALSE, error |-> e]

\* ------------------------------------------------- brightness mapping
Max(a, b) == IF a > b THEN a ELSE b
Min(a, b) == IF a < b THEN a ELSE b
\* int(x) truncates toward zero
TruncDiv(n, d) == IF n >= 0 THEN n \div d ELSE -((-n) \div d)

ClampPercent(percent) == Max(MinPercent, Min(MaxPercent, percent))

WireValue(percent) ==
    TruncDiv(ClampPercent(percent) * WireSpan, 100) + 1

\* the read conversion without its clamp
PercentFromWireUnclamped(raw) == TruncDiv((raw - 1) * 100, WireSpan)

PercentFromWire(raw) ==
    Max(MinPercent, Min(MaxPercent, TruncDiv((raw - 1) * 100, WireSpan)))

\* ------------------------------------------------ connection manager
\* is_connected trusting that a client object exists
IsConnectedAnyClient(c) == client[c]

\* is_connected trusting the local flag without asking the transport
IsConnectedLocalFlag(c) == connected[c] /\ client[c]

IsConnected(c) == connected[c] /\ client[c] /\ link[c] = "connected"

\* the handler's check without is_connected
DaemonHasConnection == connection # NoConn

DaemonConnected == connection # NoConn /\ IsConnected(connection)

Seen ==
    LET up == /\ connection # NoConn
              /\ connected[connection]
              /\ client[connection]
              /\ link[connection] = "connected"
    IN [up |-> up,
        lost |-> connection # NoConn /\ link[connection] = "lost",
        addr |-> IF up THEN address[connection] ELSE NoAddr,
        known |-> lastAddress]

InitialBulb == [power |-> PowerOff, brightness |-> WireSpan + 1]

Init ==
    /\ connection = NoConn
    /\ server = "none"
    /\ pidFile = FALSE
    /\ lastAddress \in {NoAddr, "AA:BB"}
    /\ address = [c \in Conns |-> NoAddr]
    /\ client = [c \in Conns |-> FALSE]
    /\ connected = [c \in Conns |-> FALSE]
    /\ link = [c \in Conns |-> "none"]
    /\ lockHolder = [c \in Conns |-> NoTask]
    /\ waiters = [c \in Conns |-> <<>>]
    /\ bulb = [a \in Addresses |-> InitialBulb]
    /\ pc = [t \in Tasks |-> IF t = Main THEN "init" ELSE "idle"]
    /\ request = [t \in Tasks |-> NoRequest]
    /\ seen = [t \in Tasks |-> NothingSeen]
    /\ self = [t \in Tasks |-> NoConn]
    /\ resp = [t \in Tasks |-> NoResp]
    /\ sent = [t \in Tasks |-> 0]
    /\ wire = [t \in Tasks |-> <<>>]


\* ------------------------------------------------------- small helpers
Issue(t, op) == wire' = [wire EXCEPT ![t] = Append(@, op)]
Read(char) == [op |-> "read", char |-> char]
Write(char, v) == [op |-> "write", char |-> char, value |-> v]
Pair == [op |-> "pair"]
ClientConnect == [op |-> "connect"]
ClientDisconnect == [op |-> "disconnect"]

Goto(t, where) == pc' = [pc EXCEPT ![t] = where]

\* writer.close() was called: by the finally clause, or by the shutdown
\* branch before it calls stop().
WriterClosed(s) ==
    \/ pc[s] = "closed"
    \/ request[s].cmd = "shutdown" /\ pc[s] \in {"disconnecting", "wait_closed"}

\* writer.write(json.dumps(response) + "\n"), drain() and the finally
\* clause: drain() does not suspend for one short line, so the writer is
\* closed in the same step.  A closed transport drops what is written to it.
Respond(s, r) ==
    /\ resp' = [resp EXCEPT ![s] = r]
    /\ sent' = [sent EXCEPT ![s] = IF WriterClosed(s) THEN @ ELSE @ + 1]
    /\ Goto(s, "closed")

\* the except clause without its write
RaiseSilently(s, e) ==
    /\ resp' = [resp EXCEPT ![s] = ErrorResponse(e)]
    /\ Goto(s, "closed")
    /\ UNCHANGED sent

\* An exception that reaches handle_client's `except Exception`.
Raise(s, e) == Respond(s, ErrorResponse(e))

\* HueBulbConnection.connect returned `success` to its caller, which runs
\* on to its next suspension point.
ConnectReturns(t, success) ==
    IF t = Main
    THEN /\ Goto(t, "serving")
         /\ connection' = IF success THEN connection ELSE NoConn
         /\ UNCHANGED <<resp, sent>>
    ELSE /\ Respond(t, IF success THEN ConnectedTo(address[self[t]])
                                  ELSE ConnectionFailed)
         /\ UNCHANGED connection

\* an operation that leaves the lock held
ReleaseForgotten(c) == UNCHANGED lockHolder

\* asyncio.Lock.release(): the lock is free again and the first waiter, if
\* any, is woken; it takes the lock when it runs.
Release(c) == lockHolder' = [lockHolder EXCEPT ![c] = NoTask]

\* ------------------------------------------------------ HueDaemon.start
\* start_server, the PID file and the auto-connect, up to its first wait.
Start ==
    /\ pc[Main] = "init"
    /\ server' = "listening"
    /\ pidFile' = TRUE
    /\ IF lastAddress # NoAddr
       THEN /\ connection' = Main
            /\ address' = [address EXCEPT ![Main] = lastAddress]
            /\ client' = [client EXCEPT ![Main] = TRUE]
            /\ link' = [link EXCEPT ![Main] = "connecting"]
            /\ self' = [self EXCEPT ![Main] = Main]
            /\ Issue(Main, ClientConnect)
            /\ Goto(Main, "connecting")
       ELSE /\ Goto(Main, "serving")
            /\ UNCHANGED <<connection, address, client, link, self, wire>>
    /\ UNCHANGED <<lastAddress, connected, lockVars, bulb, request, seen, resp, sent>>

\* ------------------------------------------- HueBulbConnection.connect
\* `await self._client.connect()` returns or raises.
ClientConnectReturns(t, outcome) ==
    /\ pc[t] = "connecting"
    /\ LET c == self[t] IN
       \/ /\ outcome = "ok"
          /\ link' = [link EXCEPT ![c] = "connected"]
          /\ IF client[c]
             THEN \* is_connected holds: the privileged first read
                  /\ connected' = [connected EXCEPT ![c] = TRUE]
                  /\ Issue(t, Read("power"))
                  /\ Goto(t, "first_read")
                  /\ UNCHANGED <<connection, resp, sent>>
             ELSE \* disconnect() cleared _client meanwhile: AttributeError
                  /\ ConnectReturns(t, FALSE)
                  /\ UNCHANGED <<connected, wire>>
       \/ /\ outcome \in {"timeout", "error"}
          /\ link' = [link EXCEPT ![c] = "closed"]
          /\ ConnectReturns(t, FALSE)
          /\ UNCHANGED <<connected, wire>>
    /\ UNCHANGED <<server, pidFile, lastAddress, address, client, lockVars, bulb,
                   request, seen, self>>

\* _save_working_address() and `return True`.
SaveAndReturn(t) ==
    /\ lastAddress' = address[self[t]]
    /\ ConnectReturns(t, TRUE)

\* pairing after any BleakError of the first read
PairOnAnyError(outcome) == TRUE

\* `"Insufficient Encryption" in str(e) or "0x0F" in str(e)`
NeedsPairing(outcome) == outcome = "insufficient_encryption"

\* The transport calls a task issued, the last one (a read) with the
\* BleakError it raised.
Failed(q, e) ==
    [q EXCEPT ![Len(q)] = [op |-> "read", char |-> @.char, error |-> e]]

\* `await self._client.read_gatt_char(POWER_CHAR_UUID)` returns or raises.
FirstReadReturns(t, outcome) ==
    /\ pc[t] = "first_read"
    /\ LET c == self[t] IN
       \/ /\ outcome = "ok"
          /\ link[c] = "connected"
          /\ SaveAndReturn(t)
          /\ UNCHANGED wire
       \/ /\ outcome \in {"bleak_error", "insufficient_encryption"}
          /\ IF ~NeedsPairing(outcome)
             THEN /\ SaveAndReturn(t)
                  /\ UNCHANGED wire
             ELSE IF client[c]
             THEN /\ wire' = [wire EXCEPT ![t] = Append(Failed(@, outcome), Pair)]
                  /\ Goto(t, "pairing")
                  /\ UNCHANGED <<connection, resp, sent, lastAddress>>
             ELSE /\ ConnectReturns(t, FALSE)
                  /\ UNCHANGED <<wire, lastAddress>>
       \/ /\ outcome = "error"
          /\ ConnectReturns(t, FALSE)
          /\ UNCHANGED <<wire, lastAddress>>
    /\ UNCHANGED <<server, pidFile, connVars, lockVars, bulb, request, seen, self>>

\* `await self._client.pair()` returns or raises.
PairReturns(t, outcome) ==
    /\ pc[t] = "pairing"
    /\ \/ /\ outcome = "ok"
          /\ link[self[t]] = "connected"
          /\ SaveAndReturn(t)
       \/ /\ outcome = "error"
          /\ ConnectReturns(t, FALSE)
          /\ UNCHANGED lastAddress
    /\ UNCHANGED <<server, pidFile, connVars, lockVars, bulb, request, seen, self, wire>>

\* The transport loses the link: BleakClient.is_connected is false from
\* now on.  The backend schedules disconnected_callback on the event loop,
\* so other tasks may run before it.
LinkDrops(c) ==
    /\ link[c] = "connected"
    /\ link' = [link EXCEPT ![c] = "dropped"]
    /\ UNCHANGED <<daemonVars, address, client, connected, lockVars, bulb, pc,
                   sessVars, wire>>

\* disconnected_callback: _on_disconnect.
OnDisconnect(c) ==
    /\ link[c] = "dropped"
    /\ link' = [link EXCEPT ![c] = "lost"]
    /\ connected' = [connected EXCEPT ![c] = FALSE]
    /\ UNCHANGED <<daemonVars, address, client, lockVars, bulb, pc, sessVars, wire>>


\* ---------------------------------------- HueBulbConnection.disconnect
\* What disconnect() leaves once `await self._client.disconnect()` is over
\* or was not needed.
Cleared(f, c) == [f EXCEPT ![c] = FALSE]

\* disconnect() up to its first wait: whether it has to wait for the
\* transport.
\* disconnect() calling the transport whatever the link's state
AlwaysAwaitDisconnect(c) == TRUE

MustAwaitDisconnect(c) == client[c] /\ link[c] = "connected"

\* ------------------------------------------------- the operation lock
\* operations that do not take the lock
LockIgnored(c) == TRUE

LockFree(c) == lockHolder[c] = NoTask /\ waiters[c] = <<>>

\* The first transport call of turn_on / turn_off / set_brightness /
\* get_state, made with the lock held.
FirstCall(req) ==
    CASE req.cmd = "on" -> Write("power", PowerOn)
      [] req.cmd = "off" -> Write("power", PowerOff)
      [] req.cmd = "brightness" -> Write("brightness", WireValue(req.level))
      [] req.cmd = "status" -> Read("power")

AwaitOf(req) == IF req.cmd = "status" THEN "read_power" ELSE "writing"

\* An operation of connection c, called by session s whose is_connected
\* check passed: `async with self._lock` and the first transport call.
BeginOp(s, c, req) ==
    /\ self' = [self EXCEPT ![s] = c]
    /\ IF LockFree(c)
       THEN /\ lockHolder' = [lockHolder EXCEPT ![c] = s]
            /\ Issue(s, FirstCall(req))
            /\ Goto(s, AwaitOf(req))
            /\ UNCHANGED waiters
       ELSE /\ waiters' = [waiters EXCEPT ![c] = Append(@, s)]
            /\ Goto(s, "lock_wait")
            /\ UNCHANGED <<lockHolder, wire>>
    /\ UNCHANGED <<resp, sent>>

\* --------------------------------------------- HueDaemon.handle_client
\* The value of `self.connection and self.connection.is_connected` as
\* json.dumps writes it.
PingConnected ==
    IF connection = NoConn THEN "null"
    ELSE IF IsConnected(connection) THEN "true" ELSE "false"

HandlePing(s) ==
    /\ Respond(s, [ok |-> TRUE, connected |-> PingConnected])
    /\ UNCHANGED <<daemonVars, connVars, lockVars, bulb, self, wire>>

\* The connect command's `address`: the request's, else the configured one.
ResolvedAddress(req) ==
    IF req.address # NoAddr THEN req.address ELSE lastAddress

\* the connect command without its same-address branch
NeverAlreadyConnected(a) == FALSE

AlreadyConnectedTo(a) == DaemonConnected /\ address[connection] = a

\* the new connection made without regard to what disconnect() left
NewConnectionBesideOld(s, a, clientNow, linkNow) ==
    /\ connection' = s
    /\ address' = [address EXCEPT ![s] = a]
    /\ client' = [client EXCEPT ![s] = TRUE]
    /\ link' = [link EXCEPT ![s] = "connecting"]
    /\ self' = [self EXCEPT ![s] = s]
    /\ Goto(s, "connecting")

\* `self.connection = HueBulbConnection(address)` and connect() up to
\* `await self._client.connect()`.
NewConnection(s, a, clientNow, linkNow) ==
    /\ connection' = s
    /\ address' = [address EXCEPT ![s] = a]
    /\ client' = [clientNow EXCEPT ![s] = TRUE]
    /\ link' = [linkNow EXCEPT ![s] = "connecting"]
    /\ self' = [self EXCEPT ![s] = s]
    /\ Goto(s, "connecting")

HandleConnect(s, a) ==
    /\ IF a = NoAddr
       THEN /\ Respond(s, NoAddressSpecified)
            /\ UNCHANGED <<connection, connVars, self, wire>>
       ELSE IF AlreadyConnectedTo(a)
       THEN /\ Respond(s, AlreadyConnected)
            /\ UNCHANGED <<connection, connVars, self, wire>>
       ELSE IF DaemonConnected
       THEN \* another identity: `await self.connection.disconnect()`
            /\ self' = [self EXCEPT ![s] = connection]
            /\ Issue(s, ClientDisconnect)
            /\ Goto(s, "disconnecting")
            /\ UNCHANGED <<connection, connVars, resp, sent>>
       ELSE /\ NewConnection(s, a, client, link)
            /\ Issue(s, ClientConnect)
            /\ UNCHANGED <<connected, resp, sent>>
    /\ UNCHANGED <<server, pidFile, lastAddress, lockVars, bulb>>

HandleDisconnect(s) ==
    /\ IF connection = NoConn
       THEN /\ Respond(s, Ok(TRUE))
            /\ UNCHANGED <<connection, connVars, self, wire>>
       ELSE IF MustAwaitDisconnect(connection)
       THEN /\ self' = [self EXCEPT ![s] = connection]
            /\ Issue(s, ClientDisconnect)
            /\ Goto(s, "disconnecting")
            /\ UNCHANGED <<connection, connVars, resp, sent>>
       ELSE /\ client' = Cleared(client, connection)
            /\ connected' = Cleared(connected, connection)
            /\ connection' = NoConn
            /\ Respond(s, Ok(TRUE))
            /\ UNCHANGED <<address, link, self, wire>>
    /\ UNCHANGED <<server, pidFile, lastAddress, lockVars, bulb>>

\* on / off / brightness / status
HandleOp(s, req) ==
    /\ IF DaemonConnected
       THEN BeginOp(s, connection, req)
       ELSE /\ Respond(s, NotConnected)
            /\ UNCHANGED <<lockVars, self, wire>>
    /\ UNCHANGED <<daemonVars, connVars, bulb>>

\* the shutdown branch calling stop() without answering first
HandleShutdownUnanswered(s) ==
    /\ Goto(s, "shutdown_drain")
    /\ UNCHANGED <<daemonVars, connVars, lockVars, bulb, self, resp, sent, wire>>

HandleShutdown(s) ==
    /\ resp' = [resp EXCEPT ![s] = ShuttingDown]
    /\ sent' = [sent EXCEPT ![s] = @ + 1]
    /\ Goto(s, "shutdown_drain")
    /\ UNCHANGED <<daemonVars, connVars, lockVars, bulb, self, wire>>

\* the fall-through treated as the disconnect branch
HandleUnknownAsDisconnect(s) == HandleDisconnect(s)

\* No branch matches: `cmd` is a value other than the eight names, or None
\* when the key is absent.
HandleUnknown(s) ==
    /\ Respond(s, UnknownCommand)
    /\ UNCHANGED <<daemonVars, connVars, lockVars, bulb, self, wire>>

\* The request as handle_client's locals hold it: `address` resolved,
\* `level` defaulted.
Locals(req) ==
    [req EXCEPT !.address = IF req.cmd = "connect" THEN ResolvedAddress(req) ELSE @,
                !.level = IF req.cmd = "brightness" /\ @ = NoLevel
                          THEN DefaultLevel ELSE @]

\* A connection was accepted while the server listens.
Accept(s) ==
    /\ server = "listening"
    /\ pc[s] = "idle"
    /\ \A r \in Sessions : r < s => pc[r] # "idle"
    /\ Goto(s, "reading")
    /\ UNCHANGED <<daemonVars, connVars, lockVars, bulb, sessVars, wire>>

\* readline() returned a line that decodes to `req`: dispatch up to the
\* first wait.
Handle(s, req) ==
    /\ pc[s] = "reading"
    /\ request' = [request EXCEPT ![s] = Locals(req)]
    /\ seen' = [seen EXCEPT ![s] = Seen]
    /\ CASE req.cmd = "ping" -> HandlePing(s)
         [] req.cmd = "connect" -> HandleConnect(s, ResolvedAddress(req))
         [] req.cmd = "disconnect" -> HandleDisconnect(s)
         [] req.cmd \in OpCmds -> HandleOp(s, Locals(req))
         [] req.cmd = "shutdown" -> HandleShutdown(s)
         [] OTHER -> HandleUnknown(s)

\* readline() returned a line json.loads rejects, or a value without .get.
HandleMalformed(s) ==
    /\ pc[s] = "reading"
    /\ request' = [request EXCEPT ![s].cmd = "<malformed>"]
    /\ UNCHANGED seen
    /\ Raise(s, "decode")
    /\ UNCHANGED <<daemonVars, connVars, lockVars, bulb, self, wire>>

\* wait_for(readline(), 5.0) timed out: no response, the finally clause.
ReadTimeout(s) ==
    /\ pc[s] = "reading"
    /\ request' = [request EXCEPT ![s].cmd = "<timeout>"]
    /\ UNCHANGED seen
    /\ Goto(s, "closed")
    /\ UNCHANGED <<daemonVars, connVars, lockVars, bulb, self, resp, sent, wire>>

\* readline() returned b"" (the client closed): `return`, the finally clause.
ReadEof(s) ==
    /\ pc[s] = "reading"
    /\ request' = [request EXCEPT ![s].cmd = "<eof>"]
    /\ UNCHANGED seen
    /\ Goto(s, "closed")
    /\ UNCHANGED <<daemonVars, connVars, lockVars, bulb, self, resp, sent, wire>>


\* `await self._client.disconnect()` returns or raises, in disconnect()
\* called for a disconnect command, a connect to another identity, or stop().
DisconnectReturns(t, outcome) ==
    /\ pc[t] = "disconnecting"
    /\ LET c == self[t]
           closed == [link EXCEPT ![c] = "closed"]
       IN
       \/ /\ outcome = "ok"
          /\ connected' = Cleared(connected, c)
          /\ CASE request[t].cmd = "disconnect" ->
                    /\ link' = closed
                    /\ client' = Cleared(client, c)
                    /\ connection' = NoConn
                    /\ Respond(t, Ok(TRUE))
                    /\ UNCHANGED <<server, address, self, wire>>
               [] request[t].cmd = "connect" ->
                    /\ NewConnection(t, request[t].address, Cleared(client, c), closed)
                    /\ Issue(t, ClientConnect)
                    /\ UNCHANGED <<server, resp, sent>>
               [] request[t].cmd = "shutdown" ->
                    /\ link' = closed
                    /\ client' = Cleared(client, c)
                    /\ server' = "closed"
                    /\ Goto(t, "wait_closed")
                    /\ UNCHANGED <<connection, address, self, resp, sent, wire>>
       \/ /\ outcome = "error"
          /\ Raise(t, "disconnect")
          /\ UNCHANGED <<connection, server, connVars, self, wire>>
    /\ UNCHANGED <<pidFile, lastAddress, lockVars, bulb, request, seen>>

\* A session woken by release() takes the lock and makes its first call;
\* `self._client` may be None by now.
LockAcquired(s) ==
    /\ pc[s] = "lock_wait"
    /\ LET c == self[s] IN
       /\ lockHolder[c] = NoTask
       /\ waiters[c] # <<>>
       /\ Head(waiters[c]) = s
       /\ waiters' = [waiters EXCEPT ![c] = Tail(@)]
       /\ IF client[c]
          THEN /\ lockHolder' = [lockHolder EXCEPT ![c] = s]
               /\ Issue(s, FirstCall(request[s]))
               /\ Goto(s, AwaitOf(request[s]))
               /\ UNCHANGED <<resp, sent>>
          ELSE /\ Raise(s, "NoneType")
               /\ UNCHANGED <<lockHolder, wire>>
    /\ UNCHANGED <<daemonVars, connVars, bulb, request, seen, self>>

\* What a write that succeeded leaves on the device.
Written(op, a) ==
    IF op.char = "power"
    THEN [bulb EXCEPT ![a].power = op.value]
    ELSE [bulb EXCEPT ![a].brightness = op.value]

Last(q) == q[Len(q)]

\* The transport calls a task issued, the last one (a read) with the data
\* it returned.
Returned(q, data) ==
    [q EXCEPT ![Len(q)] = [op |-> "read", char |-> @.char, value |-> data]]

\* `await self._client.write_gatt_char(...)` returns or raises.
WriteReturns(s, outcome) ==
    /\ pc[s] = "writing"
    /\ LET c == self[s] IN
       /\ Release(c)
       /\ \/ /\ outcome = "ok"
             /\ link[c] = "connected"
             /\ bulb' = Written(Last(wire[s]), address[c])
             /\ Respond(s, Ok(TRUE))
          \/ /\ outcome = "bleak_error"
             /\ Respond(s, Ok(FALSE))
             /\ UNCHANGED bulb
          \/ /\ outcome = "error"
             /\ Raise(s, "transport")
             /\ UNCHANGED bulb
    /\ UNCHANGED <<daemonVars, connVars, waiters, request, seen, self, wire>>

\* The first read of get_state returns or raises; on success the second
\* read is issued.
ReadPowerReturns(s, outcome) ==
    /\ pc[s] = "read_power"
    /\ LET c == self[s] IN
       \/ /\ outcome = "ok"
          /\ link[c] = "connected"
          /\ IF client[c]
             THEN /\ wire' = [wire EXCEPT ![s] =
                        Append(Returned(@, bulb[address[c]].power),
                               Read("brightness"))]
                  /\ Goto(s, "read_brightness")
                  /\ UNCHANGED <<lockHolder, resp, sent>>
             ELSE /\ Release(c)
                  /\ Raise(s, "NoneType")
                  /\ UNCHANGED wire
       \/ /\ outcome = "bleak_error"
          /\ Release(c)
          /\ Respond(s, FailedToReadState)
          /\ UNCHANGED wire
       \/ /\ outcome = "error"
          /\ Release(c)
          /\ Raise(s, "transport")
          /\ UNCHANGED wire
    /\ UNCHANGED <<daemonVars, connVars, waiters, bulb, request, seen, self>>

PowerName(data) == IF data = PowerOn THEN "on" ELSE "off"

\* The second read of get_state returns or raises.
ReadBrightnessReturns(s, outcome) ==
    /\ pc[s] = "read_brightness"
    /\ LET c == self[s]
           raw == bulb[address[c]].brightness
       IN
       /\ Release(c)
       /\ \/ /\ outcome = "ok"
             /\ link[c] = "connected"
             /\ wire' = [wire EXCEPT ![s] = Returned(@, raw)]
             /\ Respond(s, StateResponse(PowerName(wire[s][1].value),
                                         PercentFromWire(raw)))
          \/ /\ outcome = "bleak_error"
             /\ Respond(s, FailedToReadState)
             /\ UNCHANGED wire
          \/ /\ outcome = "error"
             /\ Raise(s, "transport")
             /\ UNCHANGED wire
    /\ UNCHANGED <<daemonVars, connVars, waiters, bulb, request, seen, self>>

\* ------------------------------------------------------- HueDaemon.stop
\* The shutdown response is drained: writer.close(), then stop() up to its
\* first wait.
ShutdownDrainReturns(s) ==
    /\ pc[s] = "shutdown_drain"
    /\ IF connection # NoConn /\ MustAwaitDisconnect(connection)
       THEN /\ self' = [self EXCEPT ![s] = connection]
            /\ Issue(s, ClientDisconnect)
            /\ Goto(s, "disconnecting")
            /\ UNCHANGED <<server, client, connected>>
       ELSE /\ IF connection # NoConn
               THEN /\ client' = Cleared(client, connection)
                    /\ connected' = Cleared(connected, connection)
               ELSE UNCHANGED <<client, connected>>
            /\ server' = "closed"
            /\ Goto(s, "wait_closed")
            /\ UNCHANGED <<self, wire>>
    /\ UNCHANGED <<connection, pidFile, lastAddress, address, link, lockVars, bulb,
                   request, seen, resp, sent>>

\* server.wait_closed() returned (at once before Python 3.12, after the
\* last connection closed since): the PID file is removed, stop() returns
\* and the finally clause runs.
WaitClosedReturns(s) ==
    /\ pc[s] = "wait_closed"
    /\ pidFile' = FALSE
    /\ Goto(s, "closed")
    /\ UNCHANGED <<connection, server, lastAddress, connVars, lockVars, bulb,
                   sessVars, wire>>

\* ---------------------------------------------------- the specification
ConnectOutcomes == {"ok", "timeout", "error"}
ReadOutcomes == {"ok", "bleak_error", "error"}
FirstReadOutcomes == ReadOutcomes \cup {"insufficient_encryption"}
CallOutcomes == {"ok", "error"}

Next ==
    \/ Start
    \/ \E t \in Tasks, o \in ConnectOutcomes : ClientConnectReturns(t, o)
    \/ \E t \in Tasks, o \in FirstReadOutcomes : FirstReadReturns(t, o)
    \/ \E t \in Tasks, o \in CallOutcomes : PairReturns(t, o)
    \/ \E c \in Conns : LinkDrops(c)
    \/ \E c \in Conns : OnDisconnect(c)
    \/ \E s \in Sessions : Accept(s)
    \/ \E s \in Sessions, req \in Requests : Handle(s, req)
    \/ \E s \in Sessions : HandleMalformed(s)
    \/ \E s \in Sessions : ReadTimeout(s)
    \/ \E s \in Sessions : ReadEof(s)
    \/ \E s \in Sessions, o \in CallOutcomes : DisconnectReturns(s, o)
    \/ \E s \in Sessions : LockAcquired(s)
    \/ \E s \in Sessions, o \in ReadOutcomes : WriteReturns(s, o)
    \/ \E s \in Sessions, o \in ReadOutcomes : ReadPowerReturns(s, o)
    \/ \E s \in Sessions, o \in ReadOutcomes : ReadBrightnessReturns(s, o)
    \/ \E s \in Sessions : ShutdownDrainReturns(s)
    \/ \E s \in Sessions : WaitClosedReturns(s)

Spec == Init /\ [][Next]_vars


\* ------------------------------------- the brightness specification
\* The daemon auto-connects to the configured bulb; the first session sets
\* a brightness drawn from AllLevels and the later ones read the state
\* back.  The transport succeeds throughout, so what is read is what the
\* conversions made of the request.
BrightnessInit == Init /\ lastAddress = "AA:BB"

BrightnessNext ==
    \/ Start
    \/ ClientConnectReturns(Main, "ok")
    \/ FirstReadReturns(Main, "ok")
    \/ \E s \in Sessions : Accept(s)
    \/ \E l \in AllLevels : Handle(1, Req("brightness", NoAddr, l))
    \/ \E s \in Sessions \ {1} : Handle(s, Req("status", NoAddr, NoLevel))
    \/ \E s \in Sessions : LockAcquired(s)
    \/ \E s \in Sessions : WriteReturns(s, "ok")
    \/ \E s \in Sessions : ReadPowerReturns(s, "ok")
    \/ \E s \in Sessions : ReadBrightnessReturns(s, "ok")

SpecBrightness == BrightnessInit /\ [][BrightnessNext]_vars

\* ------------------------------------- the contention specification
\* The daemon auto-connects; every session sends status, on or disconnect.
\* The transport raises nothing but BleakError, so an exception on an
\* operation's path is one the code itself produced.
ContentionInit == Init /\ lastAddress = "AA:BB"

ContentionRequests ==
    {Req(c, NoAddr, NoLevel) : c \in {"status", "on", "disconnect"}}

BleakOutcomes == {"ok", "bleak_error"}

ContentionNext ==
    \/ Start
    \/ ClientConnectReturns(Main, "ok")
    \/ FirstReadReturns(Main, "ok")
    \/ LinkDrops(Main)
    \/ OnDisconnect(Main)
    \/ \E s \in Contenders : Accept(s)
    \/ \E s \in Contenders, req \in ContentionRequests : Handle(s, req)
    \/ \E s \in Contenders : DisconnectReturns(s, "ok")
    \/ \E s \in Contenders : LockAcquired(s)
    \/ \E s \in Contenders, o \in BleakOutcomes : WriteReturns(s, o)
    \/ \E s \in Contenders, o \in BleakOutcomes : ReadPowerReturns(s, o)
    \/ \E s \in Contenders, o \in BleakOutcomes : ReadBrightnessReturns(s, o)

SpecContention == ContentionInit /\ [][ContentionNext]_vars

\* ================================================================ claims
InWire(s) == pc[s] \in {"writing", "read_power", "read_brightness"}

Links == {c \in Conns : link[c] # "none"}

\* C1: the wire operations of two sessions' on / off / brightness / status
\* requests on the same connection never overlap: while one is between its
\* first transport call and its last, no other has a call in flight.
C1_NoOverlap ==
    \A s, t \in Sessions :
        s # t /\ InWire(s) /\ InWire(t) => self[s] # self[t]

C1_Witness ==
    \E s, t \in Sessions :
        /\ pc[s] = "read_power"
        /\ pc[t] = "lock_wait"
        /\ request[t].cmd = "brightness"
        /\ self[s] = self[t]

\* C2: at most one transport link is connected or connecting at a time, and
\* every connected link is the one HueDaemon.connection refers to.
C2_OneLink ==
    /\ Cardinality({c \in Conns : link[c] \in {"connecting", "connected"}}) <= 1
    /\ \A c \in Conns : link[c] = "connected" => connection = c

\* C3: a connect request for the identity the daemon is connected to is
\* answered "Already connected", creates no client and issues no transport
\* call.
C3_ConnectIdempotent ==
    \A s \in Sessions :
        (/\ request[s].cmd = "connect"
         /\ seen[s].up
         /\ request[s].address = seen[s].addr)
        => /\ pc[s] = "closed"
           /\ resp[s] = AlreadyConnected
           /\ sent[s] = 1
           /\ wire[s] = <<>>
           /\ ~client[s]
           /\ link[s] = "none"
           /\ connection # s

C3_Witness ==
    \E s, t \in Sessions :
        /\ s < t
        /\ resp[s] = ConnectedTo("AA:BB")
        /\ request[t] = Req("connect", "AA:BB", NoLevel)
        /\ seen[t].up
        /\ resp[t] = AlreadyConnected
        /\ Cardinality(Links) = 1

C5_NotConnectedAtOnce ==
    \A s \in Sessions :
        (/\ request[s].cmd \in OpCmds
         /\ ~seen[s].up
         /\ seen[s].known = NoAddr)
        => /\ pc[s] = "closed"
           /\ resp[s] = NotConnected
           /\ sent[s] = 1
           /\ wire[s] = <<>>
           /\ \A c \in Conns :
                 /\ lockHolder[c] # s
                 /\ \A i \in 1..Len(waiters[c]) : waiters[c][i] # s

C5_Witness ==
    \E s \in Sessions :
        /\ request[s].cmd = "brightness"
        /\ ~seen[s].up
        /\ seen[s].known = NoAddr
        /\ resp[s] = NotConnected
        /\ pc[s] = "closed"

\* C6: once the transport has dropped the daemon's link and called
\* _on_disconnect, a status request decoded while that connection is still
\* the daemon's is answered "Not connected" and issues no read.
C6_StatusAfterDrop ==
    \A s \in Sessions :
        (request[s].cmd = "status" /\ seen[s].lost)
        => /\ pc[s] = "closed"
           /\ resp[s] = NotConnected
           /\ sent[s] = 1
           /\ wire[s] = <<>>

C6_Witness ==
    \E s \in Sessions :
        /\ request[s].cmd = "status"
        /\ seen[s].lost
        /\ resp[s] = NotConnected
        /\ connection # NoConn
        /\ link[connection] = "lost"
        /\ lastAddress = address[connection]

\* C7: a brightness request whose level is outside 1..100 writes nothing to
\* the brightness characteristic and is answered ok:false.
C7_OutOfRangeRejected ==
    \A s \in Sessions :
        (/\ request[s].cmd = "brightness"
         /\ request[s].level \notin MinPercent..MaxPercent)
        => /\ wire[s] = <<>>
           /\ pc[s] = "closed" => resp[s].ok = FALSE

\* C8: for every percent in 1..100, the percent get_state computes from
\* the byte set_brightness wrote for it is within 1 of that percent, and is
\* exactly 1 for percent 1 and exactly 100 for percent 100.
C8_RoundTrip ==
    \A t \in Sessions :
        (/\ request[1].cmd = "brightness"
         /\ request[1].level \in MinPercent..MaxPercent
         /\ resp[1] = Ok(TRUE)
         /\ request[t].cmd = "status"
         /\ pc[t] = "closed"
         /\ resp[t].ok
         /\ Len(wire[t]) = 2
         /\ wire[t][2].value = wire[1][1].value)
        => LET p == request[1].level
               q == resp[t].brightness
           IN /\ q \in (p - 1)..(p + 1)
              /\ p = MinPercent => q = MinPercent
              /\ p = MaxPercent => q = MaxPercent

\* a round trip that drifts by one
C8_Witness ==
    \E t \in Sessions :
        /\ request[1] = Req("brightness", NoAddr, 50)
        /\ wire[1] = <<Write("brightness", 127)>>
        /\ resp[1] = Ok(TRUE)
        /\ request[t].cmd = "status"
        /\ Len(wire[t]) = 2
        /\ wire[t][2] = [op |-> "read", char |-> "brightness", value |-> 127]
        /\ resp[t] = StateResponse("off", 49)

\* C9: the session that runs stop() has put its "Shutting down" response on
\* the socket and seen drain() return before stop()'s first statement:
\* whenever stop() has begun (its disconnect issued or the listener
\* closed), the response was already sent.
C9_ResponseBeforeTeardown ==
    /\ \A s \in Sessions :
          (/\ request[s].cmd = "shutdown"
           /\ pc[s] \in {"disconnecting", "wait_closed", "closed"})
          => sent[s] = 1
    /\ \A s \in Sessions :
          (/\ request[s].cmd = "shutdown"
           /\ pc[s] \in {"shutdown_drain", "disconnecting", "wait_closed"})
          => resp[s] = ShuttingDown
    /\ server = "closed"
          => \E s \in Sessions : request[s].cmd = "shutdown" /\ sent[s] = 1

C9_Witness ==
    \E s \in Sessions :
        /\ request[s].cmd = "shutdown"
        /\ wire[s] = <<ClientDisconnect>>
        /\ server = "closed"
        /\ link[self[s]] = "closed"
        /\ sent[s] = 1

C11_PingBoolean ==
    \A s \in Sessions :
        (request[s].cmd = "ping" /\ pc[s] = "closed")
        => /\ resp[s].ok
           /\ resp[s].connected \in {"true", "false"}
           /\ resp[s].connected = "true" <=> seen[s].up

\* C12: a request whose cmd is absent or is none of the eight command names
\* is answered {ok:false, error:"Unknown command"}, and the step that
\* handles it changes neither HueDaemon.connection, nor any connection
\* object or link, nor the listener, and issues no transport call.
C12_UnknownCommand ==
    [][\A s \in Sessions :
        (/\ pc[s] = "reading"
         /\ pc'[s] # "reading"
         /\ request'[s].cmd = "bogus")
        => /\ resp'[s] = UnknownCommand
           /\ sent'[s] = 1
           /\ pc'[s] = "closed"
           /\ connection' = connection
           /\ connVars' = connVars
           /\ server' = server
           /\ lockVars' = lockVars
           /\ wire' = wire]_vars

C12_Witness ==
    \E s \in Sessions :
        /\ request[s].cmd = "bogus"
        /\ resp[s] = UnknownCommand
        /\ sent[s] = 1
        /\ seen[s].up
        /\ connection # NoConn
        /\ link[connection] = "connected"
        /\ server = "listening"

\* C13: HueBulbConnection.connect never raises and returns false whenever
\* the transport raised during link establishment, the privileged first
\* read or pairing: in particular a first read that ends while the link is
\* no longer connected (so it ended with a transport error) makes the
\* connect command answer "Connection failed".
C13_ConnectFailsOnError ==
    [][\A s \in Sessions :
        (/\ pc[s] = "first_read"
         /\ link[self[s]] # "connected"
         /\ pc'[s] = "closed")
        => resp'[s] = ConnectionFailed]_vars

\* C14: once a disconnect command's call of HueBulbConnection.disconnect is
\* over, whether it returned or the transport's disconnect raised, the
\* connection it was called on has _client None and _connected false.
C14_DisconnectClears ==
    \A s \in Sessions :
        (/\ request[s].cmd = "disconnect"
         /\ pc[s] = "closed"
         /\ self[s] # NoConn)
        => /\ ~client[self[s]]
           /\ ~connected[self[s]]

\* C15: is_connected is true only if _connected is true, a client exists
\* and the client reports connected; whenever the transport reports not
\* connected it is false whatever the local flag says.  What the daemon
\* does on is_connected follows: a ping answers true, and an operation is
\* started, only if all three held as the request was decoded.
C15_IsConnectedConjunction ==
    /\ \A c \in Conns :
          /\ IsConnected(c) => connected[c] /\ client[c] /\ link[c] = "connected"
          /\ link[c] # "connected" => ~IsConnected(c)
    /\ \A s \in Sessions :
          /\ (request[s].cmd = "ping" /\ pc[s] = "closed" /\ ~seen[s].up)
                => resp[s].connected # "true"
          /\ (request[s].cmd \in OpCmds /\ ~seen[s].up) => self[s] = NoConn

\* a ping answered false while the flag was still set: the one connection
\* ever made was established and saved, then dropped by the transport, and
\* _on_disconnect has not run
C15_Witness ==
    \E s \in Sessions :
        /\ request[s].cmd = "ping"
        /\ pc[s] = "closed"
        /\ resp[s].connected = "false"
        /\ seen[s].known = "CC:DD"
        /\ Cardinality(Links) = 1
        /\ connection # NoConn
        /\ address[connection] = "CC:DD"
        /\ connected[connection]
        /\ client[connection]
        /\ link[connection] = "dropped"

\* C16: an on / off / brightness / status operation whose link goes away
\* while it is in flight or waiting for the lock ends with a normal failure
\* value: the session is answered ok:false or "Failed to read state", never
\* with the text of an exception that left the HueBulbConnection method.
C16_NormalFailure ==
    \A s \in Contenders :
        (request[s].cmd \in OpCmds /\ pc[s] = "closed")
        => resp[s] \in {NotConnected, FailedToReadState, Ok(TRUE), Ok(FALSE)}
                       \cup {StateResponse(p, b) : p \in {"on", "off"},
                                                   b \in MinPercent..MaxPercent}

\* Session s ran stop() to its end.
StopDone(s) ==
    /\ request[s].cmd = "shutdown"
    /\ pc[s] = "closed"
    /\ resp[s] = ShuttingDown

C18_NothingLeftAfterStop ==
    \A s \in Sessions :
        StopDone(s)
        => \A c \in Conns :
              /\ lockHolder[c] = NoTask
              /\ link[c] # "connected"

\* C19: the startup auto-connect is attempted once and the daemon serves
\* whether it succeeds or fails; its return leaves in place a connection
\* that a client session installed in the meantime.
C19_AutoConnectKeepsSessionLink ==
    [][(/\ pc[Main] \in {"connecting", "first_read", "pairing"}
        /\ pc'[Main] = "serving"
        /\ connection \in Sessions)
       => connection' = connection]_vars

\* A task is inside connect()'s or disconnect()'s transport calls.
InConnect(t) == pc[t] \in {"connecting", "first_read", "pairing"}
InDisconnect(t) == pc[t] = "disconnecting"

\* C20: while a task is inside connect() (link establishment, privileged
\* first read, pairing) or disconnect() on a connection, no session has a
\* read or write in flight on that connection or holds its lock.
C20_ConnectExcludesOperations ==
    \A t \in Tasks, s \in Sessions :
        (/\ s # t
         /\ InConnect(t) \/ InDisconnect(t)
         /\ self[s] = self[t])
        => /\ ~InWire(s)
           /\ lockHolder[self[t]] # s

\* C21: stop() removes the PID file only after the link is disconnected,
\* the listener closed and every session in flight finished: once the
\* daemon has started, the PID file is absent only while the listener is
\* closed and no session is between its accept and its close.
C21_MarkerOutlivesSessions ==
    (server # "none" /\ ~pidFile)
    => /\ server = "closed"
       /\ \A s \in Sessions : pc[s] \in {"idle", "closed"}

\* C22: a connect request naming another identity than the connected one
\* issues the transport disconnect of the existing link first, and creates
\* the new link only in the step in which that disconnect has completed
\* and the old link is closed; a closed link never comes back, so the old
\* and the new link are never connected together.
C22_DisconnectsFirst ==
    [][/\ \A c \in Conns : link[c] = "closed" => link'[c] = "closed"
       /\ \A s \in Sessions :
            (/\ request'[s].cmd = "connect"
             /\ request'[s].address # NoAddr
             /\ seen'[s].up
             /\ seen'[s].addr # request'[s].address)
            => /\ wire'[s] # <<>> => Head(wire'[s]) = ClientDisconnect
               /\ pc'[s] = "disconnecting" => link'[s] = "none"
               /\ (link[s] = "none" /\ link'[s] # "none")
                     => /\ pc[s] = "disconnecting"
                        /\ address[self[s]] = seen[s].addr
                        /\ link'[self[s]] = "closed"
                        /\ wire'[s] = <<ClientDisconnect, ClientConnect>>]_vars

C22_Witness ==
    \E s \in Sessions :
        /\ request[s] = Req("connect", "CC:DD", NoLevel)
        /\ seen[s].up
        /\ seen[s].addr = "AA:BB"
        /\ resp[s] = ConnectedTo("CC:DD")
        /\ link[s] = "connected"
        /\ connection = s
        /\ link[Main] = "closed"
        /\ address[Main] = "AA:BB"
        /\ Head(wire[s]) = ClientDisconnect

\* C23: one call of connect() attempts the pairing handshake at most once,
\* and only as the call that follows a first privileged read that failed
\* with the authorization-required error; a read that succeeded or failed
\* otherwise is followed by no pairing, and a failed pairing by no second.
C23_PairsOnce ==
    \A t \in Tasks :
        LET q == wire[t]
            pairs == {i \in 1..Len(q) : q[i] = Pair}
        IN /\ Cardinality(pairs) <= 1
           /\ \A i \in pairs :
                 /\ i > 2
                 /\ q[i - 2] = ClientConnect
                 /\ q[i - 1] = [op |-> "read", char |-> "power",
                                error |-> "insufficient_encryption"]
           /\ pc[t] = "pairing" <=> (q # <<>> /\ Last(q) = Pair /\ pc[t] # "closed"
                                                /\ pc[t] # "serving")

\* a pairing that failed and was not repeated
C23_Witness ==
    \E s \in Sessions :
        /\ request[s].cmd = "connect"
        /\ wire[s] = <<ClientConnect,
                       [op |-> "read", char |-> "power",
                        error |-> "insufficient_encryption"],
                       Pair>>
        /\ pc[s] = "closed"
        /\ resp[s] = ConnectionFailed

\* C24: for every percent in 1..100 the byte set_brightness writes is
\* round((percent / 100) * 253) + 1, rounding to the nearest integer (a
\* half to the even one), and every byte written lies in 1..254.
C24_RoundedWireValue ==
    (/\ request[1].cmd = "brightness"
     /\ wire[1] # <<>>)
    => LET p == request[1].level
           n == p * WireSpan
           down == n \div 100
           rest == n % 100
           rounded == IF rest > 50 \/ (rest = 50 /\ down % 2 = 1)
                      THEN down + 1 ELSE down
       IN /\ wire[1][1].value \in 1..(WireSpan + 1)
          /\ p \in MinPercent..MaxPercent => wire[1][1].value = rounded + 1

\* The failed responses handle_client's `except Exception` makes of an
\* exception raised while decoding or dispatching.
ExceptionResponses ==
    {ErrorResponse(e) : e \in {"decode", "disconnect", "NoneType", "transport"}}

\* C25: an exception raised while the request is decoded or dispatched is
\* answered: the step in which the handler catches it puts the failed
\* response {ok:false, error} on the session's socket and closes the session.
C25_ExceptionAnswered ==
    [][\A s \in Sessions :
          (resp'[s] # resp[s] /\ resp'[s] \in ExceptionResponses)
          => /\ sent'[s] = sent[s] + 1
             /\ pc'[s] = "closed"]_vars

\* ------------------------------------- the specification with fairness
\* Server.wait_closed() returns at the latest when every other accepted
\* connection has been closed (since Python 3.12; at once before).
ConnectionsLost(s) ==
    \A r \in Sessions \ {s} : pc[r] = "idle" \/ WriterClosed(r)

\* One request of each kind of exit path: answered at once, a transport
\* call, an operation under the lock, a connect that disconnects first,
\* the shutdown and the fall-through.
LiveRequests ==
    {Req(c, NoAddr, NoLevel) :
        c \in {"ping", "disconnect", "on", "status", "shutdown", "bogus"}}
    \cup {Req("connect", "CC:DD", NoLevel)}

\* The steps of session s's handler task after the accept.  The event loop
\* runs every task that is ready; readline() returns or times out within
\* 5 seconds; each transport call is taken to return or raise.
SessionStep(s) ==
    \/ \E req \in LiveRequests : Handle(s, req)
    \/ HandleMalformed(s)
    \/ ReadTimeout(s)
    \/ ReadEof(s)
    \/ \E o \in ConnectOutcomes : ClientConnectReturns(s, o)
    \/ \E o \in FirstReadOutcomes : FirstReadReturns(s, o)
    \/ \E o \in CallOutcomes : PairReturns(s, o)
    \/ \E o \in CallOutcomes : DisconnectReturns(s, o)
    \/ LockAcquired(s)
    \/ \E o \in ReadOutcomes : WriteReturns(s, o)
    \/ \E o \in ReadOutcomes : ReadPowerReturns(s, o)
    \/ \E o \in ReadOutcomes : ReadBrightnessReturns(s, o)
    \/ ShutdownDrainReturns(s)
    \/ ConnectionsLost(s) /\ WaitClosedReturns(s)

Fairness == \A s \in Sessions : WF_vars(SessionStep(s))

LiveNext ==
    \/ Start
    \/ \E t \in Tasks, o \in ConnectOutcomes : ClientConnectReturns(t, o)
    \/ \E t \in Tasks, o \in FirstReadOutcomes : FirstReadReturns(t, o)
    \/ \E t \in Tasks, o \in CallOutcomes : PairReturns(t, o)
    \/ \E c \in Conns : LinkDrops(c)
    \/ \E c \in Conns : OnDisconnect(c)
    \/ \E s \in Sessions : Accept(s)
    \/ \E s \in Sessions, req \in LiveRequests : Handle(s, req)
    \/ \E s \in Sessions : HandleMalformed(s)
    \/ \E s \in Sessions : ReadTimeout(s)
    \/ \E s \in Sessions : ReadEof(s)
    \/ \E s \in Sessions, o \in CallOutcomes : DisconnectReturns(s, o)
    \/ \E s \in Sessions : LockAcquired(s)
    \/ \E s \in Sessions, o \in ReadOutcomes : WriteReturns(s, o)
    \/ \E s \in Sessions, o \in ReadOutcomes : ReadPowerReturns(s, o)
    \/ \E s \in Sessions, o \in ReadOutcomes : ReadBrightnessReturns(s, o)
    \/ \E s \in Sessions : ShutdownDrainReturns(s)
    \/ \E s \in Sessions : WaitClosedReturns(s)

SpecLive == Init /\ [][LiveNext]_vars /\ Fairness

\* C26: every accepted session eventually reaches Closed, whatever its
\* exit path, provided that each transport call returns; none waits on the
\* operation lock forever.
C26_EventuallyClosed ==
    \A s \in Sessions : (pc[s] = "reading") ~> (pc[s] = "closed")

C26_Witness ==
    \E s, t \in Sessions :
        /\ request[s].cmd = "shutdown"
        /\ pc[s] = "closed"
        /\ resp[s] = ShuttingDown
        /\ ~pidFile
        /\ request[t].cmd = "status"
        /\ pc[t] = "closed"
        /\ resp[t].ok
        /\ Len(wire[t]) = 2

\* C27: a connect request that was answered "Connection failed" leaves no
\* connected manager behind: the connection object the session made does
\* not report is_connected while it is the daemon's.
C27_FailedConnectLeavesNothing ==
    \A s \in Sessions :
        (/\ request[s].cmd = "connect"
         /\ pc[s] = "closed"
         /\ resp[s] = ConnectionFailed
         /\ connection = s)
        => ~IsConnected(s)

\* C28: every failed response to on, off, brightness or status carries an
\* `error` field, also when the transport call itself failed, and an on, off
\* or brightness request makes at most one write.
C28_FailureNamesError ==
    \A s \in Sessions :
        (request[s].cmd \in OpCmds /\ pc[s] = "closed")
        => /\ ~resp[s].ok => "error" \in DOMAIN resp[s]
           /\ request[s].cmd # "status" => Len(wire[s]) <= 1

====
